---------------------------- MODULE Spec2Model ----------------------------
(***************************************************************************)
(* A model of the NBA data preprocessing pipeline of preprocess.py:        *)
(*   clean_data -> feature_data -> multicol_data -> transform_data         *)
(* as main() runs it.                                                      *)
(*                                                                         *)
(* A DataFrame is a record                                                 *)
(*   [columns : Seq(name), dtypes : Seq(dtype), data : Seq(column),        *)
(*    index : Seq(label)]                                                  *)
(* held column by column, as pandas holds it; columns, dtypes and data are *)
(* parallel sequences, so two columns may bear the same name.              *)
(*                                                                         *)
(* Text that the code takes apart (height, weight, salary, b_day, version) *)
(* is a sequence of one-character strings.  Text that the code only        *)
(* compares (team, country, draft_round) is a string; the cell text "NaN"  *)
(* is a missing value, as read_csv reads it.                               *)
(*                                                                         *)
(* A float is an exact fraction [n |-> numerator, d |-> denominator] in    *)
(* lowest terms, d > 0; d = 0 encodes the IEEE specials (0/0 NaN, 1/0 inf, *)
(* -1/0 -inf).                                                             *)
(***************************************************************************)
EXTENDS Integers, Sequences, FiniteSets, TLC

VARIABLES pc, csv, df_cleaned, df_featured, mdf, df_corr, mi, mj, drop_log,
          df, X, y, err

vars == <<pc, csv, df_cleaned, df_featured, mdf, df_corr, mi, mj, drop_log,
          df, X, y, err>>

-----------------------------------------------------------------------------
(* Sequences *)

Range(s) == {s[k] : k \in 1..Len(s)}

RECURSIVE SelectPos(_, _, _)
\* the subsequence of s at the positions of keep, in order, from position k on
SelectPos(s, keep, k) ==
    IF k > Len(s) THEN <<>>
    ELSE IF k \in keep THEN <<s[k]>> \o SelectPos(s, keep, k + 1)
    ELSE SelectPos(s, keep, k + 1)

RECURSIVE Flatten(_)
Flatten(ss) == IF ss = <<>> THEN <<>> ELSE Head(ss) \o Flatten(Tail(ss))

Abs(a) == IF a < 0 THEN -a ELSE a

RECURSIVE GCD(_, _)
GCD(a, b) == IF b = 0 THEN a ELSE GCD(b, a % b)

RECURSIVE Pow10(_)
Pow10(k) == IF k = 0 THEN 1 ELSE 10 * Pow10(k - 1)

-----------------------------------------------------------------------------
(* Floats *)

NaNf == [n |-> 0, d |-> 0]

\* the float n/d; a zero denominator gives inf, -inf or NaN as IEEE division does
Frac(n, d) ==
    IF d = 0 THEN [n |-> (IF n > 0 THEN 1 ELSE IF n < 0 THEN -1 ELSE 0), d |-> 0]
    ELSE LET g == GCD(Abs(n), Abs(d))
             s == IF d < 0 THEN -1 ELSE 1
         IN  [n |-> s * (n \div g), d |-> s * (d \div g)]

FromInt(k) == [n |-> k, d |-> 1]

IsNaN(a) == a.n = 0 /\ a.d = 0
IsFinite(a) == a.d # 0

\* a / b of two floats (not NaN); x / 0.0 is inf, 0.0 / 0.0 is NaN
FDiv(a, b) ==
    IF IsNaN(a) \/ IsNaN(b) THEN NaNf
    ELSE IF ~IsFinite(a) THEN (IF IsFinite(b) THEN a ELSE NaNf)
    ELSE IF ~IsFinite(b) THEN FromInt(0)
    ELSE Frac(a.n * b.d, a.d * b.n)

FMul(a, b) ==
    IF IsNaN(a) \/ IsNaN(b) THEN NaNf
    ELSE IF IsFinite(a) /\ IsFinite(b) THEN Frac(a.n * b.n, a.d * b.d)
    ELSE Frac(a.n * b.n, 0)

FAdd(a, b) ==
    IF IsNaN(a) \/ IsNaN(b) THEN NaNf
    ELSE IF IsFinite(a) /\ IsFinite(b) THEN Frac(a.n * b.d + b.n * a.d, a.d * b.d)
    ELSE IF ~IsFinite(a) /\ ~IsFinite(b) /\ a.n # b.n THEN NaNf
    ELSE IF ~IsFinite(a) THEN a ELSE b

FSub(a, b) == FAdd(a, [n |-> -b.n, d |-> b.d])

\* abs(a)
FAbs(a) == [n |-> Abs(a.n), d |-> a.d]

\* a > b: false when either is NaN
FGt(a, b) ==
    /\ ~IsNaN(a) /\ ~IsNaN(b)
    /\ IF IsFinite(a) /\ IsFinite(b) THEN a.n * b.d > b.n * a.d
       ELSE IF IsFinite(a) THEN b.n < 0
       ELSE IF IsFinite(b) THEN a.n > 0
       ELSE a.n > b.n

-----------------------------------------------------------------------------
(* Python's str methods, on sequences of characters *)

Digits == <<"0", "1", "2", "3", "4", "5", "6", "7", "8", "9">>

IsDigit(c) == c \in Range(Digits)

DigitVal(c) == (CHOOSE k \in 1..10 : Digits[k] = c) - 1

IsSpace(c) == c = " "

RECURSIVE SplitOn(_, _, _)
\* s.split(ch): the segments of s between the occurrences of ch; cur is the
\* segment read so far
SplitOn(s, ch, cur) ==
    IF s = <<>> THEN <<cur>>
    ELSE IF Head(s) = ch THEN <<cur>> \o SplitOn(Tail(s), ch, <<>>)
    ELSE SplitOn(Tail(s), ch, Append(cur, Head(s)))

RECURSIVE LStrip(_)
LStrip(s) == IF s # <<>> /\ IsSpace(Head(s)) THEN LStrip(Tail(s)) ELSE s

RECURSIVE RStrip(_)
RStrip(s) ==
    IF s # <<>> /\ IsSpace(s[Len(s)]) THEN RStrip(SubSeq(s, 1, Len(s) - 1)) ELSE s

\* s.strip()
Strip(s) == RStrip(LStrip(s))

RECURSIVE Tokens(_, _)
\* s.split(): the maximal runs of non-space characters
Tokens(s, cur) ==
    IF s = <<>> THEN (IF cur = <<>> THEN <<>> ELSE <<cur>>)
    ELSE IF IsSpace(Head(s))
         THEN (IF cur = <<>> THEN <<>> ELSE <<cur>>) \o Tokens(Tail(s), <<>>)
    ELSE Tokens(Tail(s), Append(cur, Head(s)))

RECURSIVE Remove(_, _)
\* s.replace(ch, ''): every occurrence of ch removed
Remove(s, ch) ==
    IF s = <<>> THEN <<>>
    ELSE IF Head(s) = ch THEN Remove(Tail(s), ch)
    ELSE <<Head(s)>> \o Remove(Tail(s), ch)

AllDigits(s) == \A k \in 1..Len(s) : IsDigit(s[k])

RECURSIVE DecVal(_)
\* the number a sequence of digits writes
DecVal(s) == IF s = <<>> THEN 0 ELSE 10 * DecVal(SubSeq(s, 1, Len(s) - 1)) + DigitVal(s[Len(s)])

\* float(s) for s over the characters 0-9 . , $ / - space and letters: optional
\* surrounding spaces, an optional minus sign, digits with at most one point
\* and at least one digit.  Anything else raises ValueError (ok = FALSE).
ParseFloat(s) ==
    LET t    == Strip(s)
        neg  == t # <<>> /\ Head(t) = "-"
        body == IF neg THEN Tail(t) ELSE t
        parts == SplitOn(body, ".", <<>>)
        ip   == parts[1]
        fp   == IF Len(parts) = 2 THEN parts[2] ELSE <<>>
        good == /\ Len(parts) <= 2
                /\ AllDigits(ip) /\ AllDigits(fp)
                /\ Len(ip) + Len(fp) >= 1
        mag  == Frac(DecVal(ip) * Pow10(Len(fp)) + DecVal(fp), Pow10(Len(fp)))
    IN  IF good THEN [ok |-> TRUE, val |-> IF neg THEN [n |-> -mag.n, d |-> mag.d] ELSE mag]
        ELSE [ok |-> FALSE, val |-> NaNf]


-----------------------------------------------------------------------------
(* pandas.to_datetime with a format *)

IsLeap(yr) == (yr % 4 = 0 /\ yr % 100 # 0) \/ yr % 400 = 0

DaysIn(m, yr) ==
    IF m = 2 THEN (IF IsLeap(yr) THEN 29 ELSE 28)
    ELSE IF m \in {4, 6, 9, 11} THEN 30 ELSE 31

\* a reading of %y that takes every two-digit year as 19yy
Year2_LastCentury(yy) == 1900 + yy

\* strptime's %y: a two-digit year 69..99 is 19yy, 00..68 is 20yy
Year2(yy) == IF yy >= 69 THEN 1900 + yy ELSE 2000 + yy

NoDate == [year |-> 0, month |-> 0, day |-> 0]

\* to_datetime(s, format="%m/%d/%y"): month and day of one or two digits, a year
\* of exactly two digits, and a day the month has
ParseBDay(s) ==
    LET parts == SplitOn(s, "/", <<>>)
        shape == /\ Len(parts) = 3
                 /\ \A k \in 1..3 : AllDigits(parts[k])
                 /\ Len(parts[1]) \in {1, 2} /\ Len(parts[2]) \in {1, 2}
                 /\ Len(parts[3]) = 2
        m  == DecVal(parts[1])
        dd == DecVal(parts[2])
        yr == Year2(DecVal(parts[3]))
    IN  IF shape /\ m \in 1..12 /\ dd >= 1 /\ dd <= DaysIn(m, yr)
        THEN [ok |-> TRUE, val |-> [year |-> yr, month |-> m, day |-> dd]]
        ELSE [ok |-> FALSE, val |-> NoDate]

\* to_datetime(v, format="%Y") of an integer cell: the four digits of the year
ParseDraftYear(v) ==
    IF v >= 1000 /\ v <= 9999
    THEN [ok |-> TRUE, val |-> [year |-> v, month |-> 1, day |-> 1]]
    ELSE [ok |-> FALSE, val |-> NoDate]

VersionPrefix == <<"N", "B", "A", "2", "k">>

\* to_datetime(s, format="NBA2k%y")
ParseVersion(s) ==
    LET n == Len(VersionPrefix) IN
    IF /\ Len(s) = n + 2
       /\ SubSeq(s, 1, n) = VersionPrefix
       /\ AllDigits(SubSeq(s, n + 1, n + 2))
    THEN [ok |-> TRUE,
          val |-> [year |-> Year2(DecVal(SubSeq(s, n + 1, n + 2))), month |-> 1, day |-> 1]]
    ELSE [ok |-> FALSE, val |-> NoDate]

-----------------------------------------------------------------------------
(* DataFrames *)

NoFrame == [columns |-> <<>>, dtypes |-> <<>>, data |-> <<>>, index |-> <<>>]

NRows(t) == Len(t.index)

HasCol(t, name) == name \in Range(t.columns)

\* the position of the first column called name
ColPos(t, name) ==
    CHOOSE k \in 1..Len(t.columns) :
        t.columns[k] = name /\ \A j \in 1..(k - 1) : t.columns[j] # name

\* t[name]
Col(t, name) == t.data[ColPos(t, name)]

DtypeOf(t, name) == t.dtypes[ColPos(t, name)]

\* t[name] = vals: replaces the column when there is one, else appends it
SetCol(t, name, dtype, vals) ==
    IF HasCol(t, name)
    THEN [t EXCEPT !.dtypes[ColPos(t, name)] = dtype, !.data[ColPos(t, name)] = vals]
    ELSE [t EXCEPT !.columns = Append(@, name), !.dtypes = Append(@, dtype),
                   !.data = Append(@, vals)]

\* t.drop(columns=names, errors='ignore'): a new frame without them
DropCols(t, names) ==
    LET keep == {k \in 1..Len(t.columns) : t.columns[k] \notin names} IN
    [columns |-> SelectPos(t.columns, keep, 1), dtypes |-> SelectPos(t.dtypes, keep, 1),
     data |-> SelectPos(t.data, keep, 1), index |-> t.index]

\* t.select_dtypes(include=kinds)
SelectDtypes(t, kinds) ==
    LET keep == {k \in 1..Len(t.columns) : t.dtypes[k] \in kinds} IN
    [columns |-> SelectPos(t.columns, keep, 1), dtypes |-> SelectPos(t.dtypes, keep, 1),
     data |-> SelectPos(t.data, keep, 1), index |-> t.index]

NumberKinds == {"int32", "int64", "float64"}
CategoryKinds == {"category", "object"}

\* the text of a missing cell
NaN == "NaN"

\* Series.nunique() of a column of text: the distinct values, missing ones not
\* counted
NUnique(col) == Cardinality(Range(col) \ {NaN})

-----------------------------------------------------------------------------
(* clean_data *)

\* x.split("/")[1].strip().split()[0]; IndexError without a "/" or without a
\* token after it
MetricToken(x) ==
    LET parts == SplitOn(x, "/", <<>>)
        toks  == IF Len(parts) >= 2 THEN Tokens(Strip(parts[2]), <<>>) ELSE <<>>
    IN  IF Len(parts) >= 2 /\ toks # <<>>
        THEN [ok |-> TRUE, val |-> toks[1]]
        ELSE [ok |-> FALSE, val |-> <<>>]

\* a cleaner that strips one leading "$" only
StripDollar_LeadingOnly(x) == IF x # <<>> /\ Head(x) = "$" THEN Tail(x) ELSE x

\* x.replace('$', '')
StripDollar(x) == Remove(x, "$")

\* a cleaner that leaves a missing country missing
Binarize_KeepMissing(x) == IF x # "USA" /\ x # NaN THEN "Not-USA" ELSE x

\* 'Not-USA' if x != 'USA' else x
Binarize(x) == IF x # "USA" THEN "Not-USA" ELSE x

\* '0' if x == 'Undrafted' else x
Undraft(x) == IF x = "Undrafted" THEN "0" ELSE x

\* Series.fillna("No Team")
FillTeam(x) == IF x = NaN THEN "No Team" ELSE x

Raise(name) == [ok |-> FALSE, err |-> name, df |-> NoFrame]

\* clean_data(path), of the table read_csv(path) returns
clean_data(t) ==
    LET rows == 1..NRows(t)
        bd == [k \in rows |-> ParseBDay(Col(t, "b_day")[k])]
        dy == [k \in rows |-> ParseDraftYear(Col(t, "draft_year")[k])]
        ht == [k \in rows |-> MetricToken(Col(t, "height")[k])]
        wt == [k \in rows |-> MetricToken(Col(t, "weight")[k])]
        sl == [k \in rows |-> StripDollar(Col(t, "salary")[k])]
        hf == [k \in rows |-> ParseFloat(ht[k].val)]
        wf == [k \in rows |-> ParseFloat(wt[k].val)]
        sf == [k \in rows |-> ParseFloat(sl[k])]
        t1 == SetCol(t, "b_day", "datetime64", [k \in rows |-> bd[k].val])
        t2 == SetCol(t1, "draft_year", "datetime64", [k \in rows |-> dy[k].val])
        t3 == SetCol(t2, "team", "object", [k \in rows |-> FillTeam(Col(t, "team")[k])])
        t4 == SetCol(t3, "height", "float64", [k \in rows |-> hf[k].val])
        t5 == SetCol(t4, "weight", "float64", [k \in rows |-> wf[k].val])
        t6 == SetCol(t5, "salary", "float64", [k \in rows |-> sf[k].val])
        t7 == SetCol(t6, "country", "object", [k \in rows |-> Binarize(Col(t, "country")[k])])
        t8 == SetCol(t7, "draft_round", "object",
                     [k \in rows |-> Undraft(Col(t, "draft_round")[k])])
    IN  IF \E k \in rows : ~bd[k].ok THEN Raise("ValueError")
        ELSE IF \E k \in rows : ~dy[k].ok THEN Raise("ValueError")
        ELSE IF \E k \in rows : ~ht[k].ok THEN Raise("IndexError")
        ELSE IF \E k \in rows : ~wt[k].ok THEN Raise("IndexError")
        ELSE IF \E k \in rows : ~hf[k].ok \/ ~wf[k].ok \/ ~sf[k].ok THEN Raise("ValueError")
        ELSE [ok |-> TRUE, err |-> "", df |-> t8]

\* main, line 113: df_cleaned = clean_data(data_path)
CleanData ==
    /\ pc = "start"
    /\ LET r == clean_data(csv) IN
         /\ pc' = IF r.ok THEN "cleaned" ELSE "error"
         /\ err' = r.err
         /\ df_cleaned' = r.df
    /\ UNCHANGED <<csv, df_featured, mdf, df_corr, mi, mj, drop_log, df, X, y>>

-----------------------------------------------------------------------------
(* read_csv and the inputs of the cleaning stage *)

RawColumns == <<"b_day", "draft_year", "team", "height", "weight", "salary",
                "country", "draft_round", "version">>

RawDtypes == <<"object", "int64", "object", "object", "object", "object",
               "object", "object", "object">>

\* pd.read_csv(path), of the rows of the file: a frame with a RangeIndex
read_csv(rows) ==
    [columns |-> RawColumns,
     dtypes  |-> RawDtypes,
     data    |-> [c \in 1..Len(RawColumns) |->
                     [k \in 1..Len(rows) |-> rows[k][RawColumns[c]]]],
     index   |-> [k \in 1..Len(rows) |-> k - 1]]

\* the texts of the cells of the input files
BDay_6_15_90 == <<"6", "/", "1", "5", "/", "9", "0">>
BDay_2_29_00 == <<"2", "/", "2", "9", "/", "0", "0">>
BDay_6_15_85 == <<"6", "/", "1", "5", "/", "8", "5">>
Version20 == <<"N", "B", "A", "2", "k", "2", "0">>
Height_2_06 == <<"6", "-", "9", " ", "/", " ", "2", ".", "0", "6", " ", "m">>
Height_NoSlash == <<"2", ".", "0", "6", " ", "m">>
Height_NoMetric == <<"6", "-", "9", " ", "/", " ">>
Height_2_0 == <<"6", "-", "9", " ", "/", " ", "2", ".", "0", " ", "m">>
Height_2_5 == <<"6", "-", "6", " ", "/", " ", "2", ".", "5", " ", "m">>
Weight_108_9 == <<"2", "4", "0", " ", "/", " ", "1", "0", "8", ".", "9", " ", "k", "g">>
Weight_NoNumber == <<"2", "4", "0", " ", "/", " ", "k", "g">>
Weight_100 == <<"2", "4", "0", " ", "/", " ", "1", "0", "0", ".", "0", " ", "k", "g">>
Weight_128 == <<"2", "8", "4", " ", "/", " ", "1", "2", "8", ".", "0", " ", "k", "g">>
Salary_Commas == <<"$", "7", ",", "0", "0", "0", ",", "0", "0", "0">>
Salary_Plain == <<"$", "7", "0", "0", "0", "0", "0", "0">>
Salary_TwoSigns == <<"$", "7", "0", "0", "0", "0", "0", "0", "$">>
Salary_NoSign == <<"7", "0", "0", "0", "0", "0", "0", ".", "5", "0">>
Salary_SignOnly == <<"$">>
Salary_9M == <<"$", "9", "0", "0", "0", "0", "0", "0">>
Salary_8M == <<"$", "8", "0", "0", "0", "0", "0", "0">>

\* the rows a table may have at most, in the cleaning runs
MaxCleanRows == 2

HeightTexts == {Height_2_06, Height_NoSlash, Height_NoMetric}

WeightTexts == {Weight_108_9, Weight_NoNumber}

SalaryTexts == {Salary_Commas, Salary_Plain, Salary_TwoSigns, Salary_NoSign, Salary_SignOnly}

TeamTexts == {NaN, "Dallas Mavericks", "No Team"}

CountryTexts == {"USA", "Slovenia", "usa", NaN}

DraftRoundTexts == {"Undrafted", "1", "0", NaN}

\* the row of the end-to-end scenario
ScenarioRow ==
    [b_day |-> BDay_6_15_90, draft_year |-> 2011, team |-> "Dallas Mavericks",
     height |-> Height_2_06, weight |-> Weight_108_9,
     salary |-> Salary_Commas, country |-> "Slovenia",
     draft_round |-> "Undrafted", version |-> Version20]

CleanRows ==
    {[ScenarioRow EXCEPT !.height = h, !.weight = w, !.salary = s, !.team = t,
                         !.country = c, !.draft_round = r] :
        h \in HeightTexts, w \in WeightTexts, s \in SalaryTexts, t \in TeamTexts,
        c \in CountryTexts, r \in DraftRoundTexts}

\* the rows that may follow the first one
MoreRows ==
    {[ScenarioRow EXCEPT !.salary = Salary_Plain],
     [ScenarioRow EXCEPT !.salary = Salary_Plain, !.country = "USA", !.draft_round = "2",
                         !.team = NaN],
     [ScenarioRow EXCEPT !.salary = Salary_NoSign, !.height = Height_NoSlash]}

RECURSIVE SeqsUpTo(_, _)
\* the sequences over S of length at most n
SeqsUpTo(S, n) ==
    IF n = 0 THEN {<<>>}
    ELSE LET shorter == SeqsUpTo(S, n - 1) IN
         shorter \cup {Append(q, x) : q \in {r \in shorter : Len(r) = n - 1}, x \in S}

Unset ==
    /\ df_cleaned = NoFrame /\ df_featured = NoFrame /\ mdf = NoFrame
    /\ df_corr = <<>> /\ mi = 0 /\ mj = 0 /\ drop_log = <<>>
    /\ df = NoFrame /\ X = NoFrame /\ y = <<>> /\ err = ""

InitClean ==
    /\ pc = "start"
    /\ \E r \in CleanRows, more \in SeqsUpTo(MoreRows, MaxCleanRows - 1) :
          csv = read_csv(<<r>> \o more)
    /\ Unset

NextClean == CleanData

SpecClean == InitClean /\ [][NextClean]_vars

-----------------------------------------------------------------------------
(* Claims about clean_data, under SpecClean *)

CleanReturned == pc = "cleaned"
CleanEnded == pc \in {"cleaned", "error"}

Rows == 1..NRows(csv)

Raw(name, k) == Col(csv, name)[k]
Cleaned(name, k) == Col(df_cleaned, name)[k]

HasComma(s) == "," \in Range(s)

ScenarioHeight == Height_2_06
ScenarioWeight == Weight_108_9
ScenarioSalary == Salary_Commas

\* the salaries of the inputs that are a number once every "$" is removed, and
\* the number each writes
PlainSalaries == {Salary_Plain, Salary_TwoSigns, Salary_NoSign}

SalaryValue(s) == IF s = Salary_NoSign THEN Frac(700000050, 100) ELSE FromInt(7000000)

C6_CleanedCategories ==
    CleanReturned =>
      \A k \in Rows :
        /\ Cleaned("team", k) # NaN
        /\ Cleaned("team", k) = (IF Raw("team", k) = NaN THEN "No Team" ELSE Raw("team", k))
        /\ Cleaned("country", k) \in {"USA", "Not-USA"}
        /\ Cleaned("country", k) = "USA" <=> Raw("country", k) = "USA"
        /\ Cleaned("draft_round", k) # "Undrafted"
        /\ Cleaned("draft_round", k) =
             (IF Raw("draft_round", k) = "Undrafted" THEN "0" ELSE Raw("draft_round", k))

\* clean_data returned for a row with no team, no country and "Undrafted"
C6_Witness ==
    /\ CleanReturned
    /\ \E k \in Rows : /\ Raw("team", k) = NaN /\ Raw("country", k) = NaN
                       /\ Raw("draft_round", k) = "Undrafted"
                       /\ Cleaned("country", k) = "Not-USA"

-----------------------------------------------------------------------------
(* feature_data *)

\* the columns the derived features consume
FeatureSources == {"draft_year", "b_day", "weight", "height", "version"}

\* a categorical column with this many distinct values, or more, is dropped
CardinalityThreshold == 50

\* a scan that drops a column only above the threshold
HighCardinality_Above(col) == NUnique(col) > CardinalityThreshold

\* df[col].nunique() >= 50
HighCardinality(col) == NUnique(col) >= CardinalityThreshold

\* feature_data(df): arg is the frame the caller passed, as the call leaves it;
\* ret is the frame returned.  The assignments of lines 39-42 write into the
\* caller's frame; the drops of lines 44 and 49 make new frames.
feature_data(t) ==
    LET rows == 1..NRows(t)
        ver == [k \in rows |-> ParseVersion(Col(t, "version")[k])]
        a1 == SetCol(t, "version", "datetime64", [k \in rows |-> ver[k].val])
        a2 == SetCol(a1, "age", "int32",
                     [k \in rows |-> Col(a1, "version")[k].year - Col(a1, "b_day")[k].year])
        a3 == SetCol(a2, "experience", "int32",
                     [k \in rows |-> Col(a2, "version")[k].year - Col(a2, "draft_year")[k].year])
        a4 == SetCol(a3, "bmi", "float64",
                     [k \in rows |-> FDiv(Col(a3, "weight")[k],
                                          FMul(Col(a3, "height")[k], Col(a3, "height")[k]))])
        d1 == DropCols(a4, FeatureSources)
        categorical_cols == Range(SelectDtypes(d1, CategoryKinds).columns)
        cols_to_drop == {d1.columns[c] : c \in {c \in 1..Len(d1.columns) :
                            d1.columns[c] \in categorical_cols /\ HighCardinality(d1.data[c])}}
    IN  IF \E k \in rows : ~ver[k].ok
        THEN [ok |-> FALSE, err |-> "ValueError", arg |-> t, ret |-> NoFrame]
        ELSE [ok |-> TRUE, err |-> "", arg |-> a4, ret |-> DropCols(d1, cols_to_drop)]

\* main, line 114: df_featured = feature_data(df_cleaned)
FeatureData ==
    /\ pc = "cleaned"
    /\ LET r == feature_data(df_cleaned) IN
         /\ pc' = IF r.ok THEN "featured" ELSE "error"
         /\ err' = r.err
         /\ df_cleaned' = r.arg
         /\ df_featured' = r.ret
    /\ UNCHANGED <<csv, mdf, df_corr, mi, mj, drop_log, df, X, y>>

-----------------------------------------------------------------------------
(* The inputs of the feature stage *)

TwoDigits(v) == <<Digits[(v \div 10) + 1], Digits[(v % 10) + 1]>>

BDayPrefixes == {<<"6", "/", "1", "5", "/">>, <<"2", "/", "2", "9", "/">>}

\* the years NBA2kYY is written with
VersionYears == {20, 21, 68, 69}

VersionTexts ==
    {VersionPrefix \o TwoDigits(v) : v \in VersionYears}
        \cup {VersionPrefix \o <<"2", "0", "2", "0">>}

DraftYears == {1998, 2011}

PlainRow == [ScenarioRow EXCEPT !.salary = Salary_Plain]

\* one row for every two-digit birth year, alone or followed by PlainRow
DateTables ==
    {<<[PlainRow EXCEPT !.b_day = bp \o TwoDigits(yy), !.version = v, !.draft_year = dy]>>
        \o more :
        bp \in BDayPrefixes, yy \in 0..99, v \in VersionTexts, dy \in DraftYears,
        more \in {<<>>, <<PlainRow>>}}

\* the most rows a table has in the cardinality runs
MaxCardRows == 51

CardSizes == (CardinalityThreshold - 1)..MaxCardRows

\* n rows with distinct salaries, teams cycling through dt names and
\* draft_rounds cycling through dr labels, the first one missing when miss
CardTable(n, dt, dr, miss) ==
    [k \in 1..n |->
        [PlainRow EXCEPT !.salary = <<"$", "7", "0", "0", "0">> \o TwoDigits(k),
                         !.team = ToString(k % dt),
                         !.draft_round = IF miss /\ k = 1 THEN NaN ELSE ToString(k % dr)]]

CardTables ==
    {CardTable(n, dt, dr, miss) :
        n \in CardSizes, dt \in {2} \cup CardSizes, dr \in CardSizes, miss \in BOOLEAN}

InitFeature ==
    /\ pc = "start"
    /\ \E rows \in DateTables \cup CardTables : csv = read_csv(rows)
    /\ Unset

NextFeature == CleanData \/ FeatureData

SpecFeature == InitFeature /\ [][NextFeature]_vars

-----------------------------------------------------------------------------
(* Claims about feature_data, under SpecFeature *)

FeatureReturned == pc = "featured"

\* the table clean_data returned, before feature_data was called with it
CleanedBefore == clean_data(csv).df

\* C3, as stated: after feature_data(df) returns, the caller's table has the
\* columns and the column types it had before the call: no age, experience or
\* bmi column, and version still the text it was.
C3_InputUntouched ==
    FeatureReturned =>
      /\ df_cleaned.columns = CleanedBefore.columns
      /\ df_cleaned.dtypes = CleanedBefore.dtypes
      /\ ~HasCol(df_cleaned, "age") /\ ~HasCol(df_cleaned, "experience")
      /\ ~HasCol(df_cleaned, "bmi")
      /\ DtypeOf(df_cleaned, "version") = "object"

Categoricals(t) == Range(SelectDtypes(t, CategoryKinds).columns)

\* C7: the table feature_data returns has none of draft_year, b_day, weight,
\* height, version; none of its categorical columns has 50 or more distinct
\* (non-missing) values; and it has every other column of the cleaned table
\* and of the derived ones, so a categorical column of at most 49 distinct
\* values, and any numeric column, is kept.
C7_FeatureColumns ==
    FeatureReturned =>
      /\ \A c \in FeatureSources : ~HasCol(df_featured, c)
      /\ \A c \in 1..Len(df_featured.columns) :
            df_featured.dtypes[c] \in CategoryKinds => NUnique(df_featured.data[c]) < 50
      /\ \A name \in Range(CleanedBefore.columns) \cup {"age", "experience", "bmi"} :
            HasCol(df_featured, name) <=>
              /\ name \notin FeatureSources
              /\ ~(/\ name \in Categoricals(CleanedBefore)
                   /\ NUnique(Col(CleanedBefore, name)) >= 50)

\* feature_data returned a table after dropping a categorical column of exactly
\* 50 distinct values and keeping one of 49 beside a missing value
C7_Witness ==
    /\ FeatureReturned
    /\ NUnique(Col(CleanedBefore, "team")) = 50 /\ ~HasCol(df_featured, "team")
    /\ NUnique(Col(CleanedBefore, "draft_round")) = 49
    /\ NaN \in Range(Col(CleanedBefore, "draft_round"))
    /\ HasCol(df_featured, "draft_round")
    /\ Cardinality(Range(Col(df_featured, "salary"))) >= 50

\* the two digits that end a text, as a number
LastTwo(s) == DecVal(SubSeq(s, Len(s) - 1, Len(s)))

\* C9, as stated: age is 20VV - 19YY for the version NBA2kVV and the b_day
\* M/D/YY, for every YY in 00..99, and experience is 20VV less the draft year.
C9_BirthYearLastCentury ==
    FeatureReturned =>
      \A k \in Rows :
        /\ Col(df_featured, "age")[k] =
             (2000 + LastTwo(Raw("version", k))) - (1900 + LastTwo(Raw("b_day", k)))
        /\ Col(df_featured, "experience")[k] =
             (2000 + LastTwo(Raw("version", k))) - Raw("draft_year", k)

\* the year strptime reads a two-digit year as
Pivot(yy) == IF yy <= 68 THEN 2000 + yy ELSE 1900 + yy

\* C9, amended: age is the version year less the birth year and experience the
\* version year less the draft year, where a two-digit year, of b_day and of
\* version alike, is 19YY for YY in 69..99 and 20YY for YY in 00..68.
C9_AgeAndExperience ==
    FeatureReturned =>
      \A k \in Rows :
        /\ Col(df_featured, "age")[k] =
             Pivot(LastTwo(Raw("version", k))) - Pivot(LastTwo(Raw("b_day", k)))
        /\ Col(df_featured, "experience")[k] =
             Pivot(LastTwo(Raw("version", k))) - Raw("draft_year", k)

\* feature_data returned for b_day 6/15/90, NBA2k20 and the draft year 2011,
\* with age 30 and experience 9
C9_Witness ==
    /\ FeatureReturned
    /\ Raw("b_day", 1) = BDay_6_15_90
    /\ Raw("version", 1) = Version20 /\ Raw("draft_year", 1) = 2011
    /\ Col(df_featured, "age")[1] = 30 /\ Col(df_featured, "experience")[1] = 9

-----------------------------------------------------------------------------
(* multicol_data *)

Target == "salary"

\* the correlation above which, in absolute value, two columns are collinear
CorrThreshold == Frac(5, 10)

\* a test that forgets the absolute value
Collinear_Signed(c) == FGt(c, CorrThreshold)

\* abs(df_corr.loc[i, col]) > 0.5
Collinear(c) == FGt(FAbs(c), CorrThreshold)

\* the correlations a pair of columns of non-zero variance may have: at the
\* threshold, above it, and below its negative
CorrValues == {Frac(5, 10), Frac(6, 10), Frac(-6, 10)}

\* a column whose values are all the same has no variance
ZeroVariance(col) == Cardinality(Range(col)) <= 1

\* what numeric_df.corr() may return: a symmetric matrix over the columns of
\* numeric_df, 1.0 on the diagonal, and NaN wherever a column of zero variance
\* is involved
CorrMatrices(numeric_df) ==
    LET names == Range(numeric_df.columns)
        flat  == {n \in names : ZeroVariance(Col(numeric_df, n))}
        pairs == {p \in SUBSET (names \ flat) : Cardinality(p) = 2}
    IN  {[names |-> numeric_df.columns,
          at |-> [a \in names, b \in names |->
                    IF a \in flat \/ b \in flat THEN NaNf
                    ELSE IF a = b THEN FromInt(1)
                    ELSE f[{a, b}]]] : f \in [pairs -> CorrValues]}

\* a visit that compares the magnitudes of the correlations with the target
Visit_Magnitude(t, corr, i, col) ==
    IF i # Target /\ col # Target /\ i # col /\ Collinear(corr.at[i, col])
    THEN IF FGt(FAbs(corr.at[i, Target]), FAbs(corr.at[col, Target]))
         THEN [df |-> DropCols(t, {col}), dropped |-> <<col>>]
         ELSE [df |-> DropCols(t, {i}), dropped |-> <<i>>]
    ELSE [df |-> t, dropped |-> <<>>]

\* a visit that passes over a pair one of whose columns is already removed
Visit_SkipRemoved(t, corr, i, col) ==
    IF /\ i # Target /\ col # Target /\ i # col /\ Collinear(corr.at[i, col])
       /\ HasCol(t, i) /\ HasCol(t, col)
    THEN IF FGt(corr.at[i, Target], corr.at[col, Target])
         THEN [df |-> DropCols(t, {col}), dropped |-> <<col>>]
         ELSE [df |-> DropCols(t, {i}), dropped |-> <<i>>]
    ELSE [df |-> t, dropped |-> <<>>]

\* the body of the loops, lines 63-67, for the row i and the column col of
\* df_corr: the frame it leaves and the column it asked to drop, if any
Visit(t, corr, i, col) ==
    IF i # Target /\ col # Target /\ i # col /\ Collinear(corr.at[i, col])
    THEN IF FGt(corr.at[i, Target], corr.at[col, Target])
         THEN [df |-> DropCols(t, {col}), dropped |-> <<col>>]
         ELSE [df |-> DropCols(t, {i}), dropped |-> <<i>>]
    ELSE [df |-> t, dropped |-> <<>>]

RECURSIVE Scan(_, _, _, _, _)
\* the loops of lines 61-67 over the columns in the given order, from the
\* a-th row and the b-th column on
Scan(t, corr, order, a, b) ==
    IF a > Len(order) THEN t
    ELSE IF b > Len(order) THEN Scan(t, corr, order, a + 1, 1)
    ELSE Scan(Visit(t, corr, order[a], order[b]).df, corr, order, a, b + 1)

\* lines 58-59: numeric_df = df.select_dtypes(include=['number']);
\* df_corr = numeric_df.corr()
MulticolBegin ==
    /\ pc = "featured"
    /\ \E m \in CorrMatrices(SelectDtypes(df_featured, NumberKinds)) : df_corr' = m
    /\ mdf' = df_featured
    /\ mi' = 1 /\ mj' = 1
    /\ drop_log' = <<>>
    /\ pc' = "multicol"
    /\ UNCHANGED <<csv, df_cleaned, df_featured, df, X, y, err>>

\* lines 61-67: one pass of the inner loop; df_corr.loc[i, 'salary'] raises
\* KeyError when there is no numeric salary column
MulticolVisit ==
    /\ pc = "multicol"
    /\ mi <= Len(df_corr.names)
    /\ LET i   == df_corr.names[mi]
           col == df_corr.names[mj]
           last == mj = Len(df_corr.names)
       IN  IF i # col /\ Collinear(df_corr.at[i, col]) /\ Target \notin Range(df_corr.names)
           THEN /\ pc' = "error" /\ err' = "KeyError"
                /\ UNCHANGED <<mdf, mi, mj, drop_log>>
           ELSE LET r == Visit(mdf, df_corr, i, col) IN
                /\ mdf' = r.df
                /\ drop_log' = IF r.dropped = <<>> THEN drop_log
                               ELSE Append(drop_log, [i |-> i, col |-> col,
                                                      dropped |-> r.dropped[1]])
                /\ mi' = IF last THEN mi + 1 ELSE mi
                /\ mj' = IF last THEN 1 ELSE mj + 1
                /\ UNCHANGED <<pc, err>>
    /\ UNCHANGED <<csv, df_cleaned, df_featured, df_corr, df, X, y>>

\* line 69 and main, line 115: df = multicol_data(df_featured)
MulticolReturn ==
    /\ pc = "multicol"
    /\ mi > Len(df_corr.names)
    /\ df' = mdf
    /\ pc' = "filtered"
    /\ UNCHANGED <<csv, df_cleaned, df_featured, mdf, df_corr, mi, mj, drop_log, X, y, err>>

-----------------------------------------------------------------------------
(* The inputs of the collinearity filter *)

NumericNames == {Target, "age", "experience", "bmi"}

\* the orders the numeric columns may stand in
ColumnOrders ==
    {o \in [1..Cardinality(NumericNames) -> NumericNames] :
        \A a, b \in DOMAIN o : a # b => o[a] # o[b]}

\* a feature table of two rows: a country column, then the numeric columns in
\* the given order, those of flat holding one value twice
FeatureTable(order, flat) ==
    [columns |-> <<"country">> \o order,
     dtypes  |-> <<"object">> \o [k \in DOMAIN order |->
                    IF order[k] \in {"age", "experience"} THEN "int32" ELSE "float64"],
     data    |-> <<<<"USA", "Not-USA">>>> \o [k \in DOMAIN order |->
                    LET lo == IF order[k] \in {"age", "experience"} THEN 20 + k
                              ELSE FromInt(20 + k)
                        hi == IF order[k] \in {"age", "experience"} THEN 30 + k
                              ELSE FromInt(30 + k)
                    IN  IF order[k] \in flat THEN <<lo, lo>> ELSE <<lo, hi>>],
     index   |-> <<0, 1>>]

InitMulticol ==
    /\ pc = "featured"
    /\ csv = NoFrame /\ df_cleaned = NoFrame
    /\ \E order \in ColumnOrders, flat \in {{}} \cup {{n} : n \in NumericNames} :
          df_featured = FeatureTable(order, flat)
    /\ mdf = NoFrame /\ df_corr = <<>> /\ mi = 0 /\ mj = 0 /\ drop_log = <<>>
    /\ df = NoFrame /\ X = NoFrame /\ y = <<>> /\ err = ""

NextMulticol == MulticolBegin \/ MulticolVisit \/ MulticolReturn

SpecMulticol == InitMulticol /\ [][NextMulticol]_vars

-----------------------------------------------------------------------------
(* Claims about multicol_data, under SpecMulticol *)

Filtered == pc = "filtered"

\* the numeric columns other than the target, as multicol_data received them
Features == Range(df_corr.names) \ {Target}

Remaining == Range(df.columns)

Removed == Range(df_featured.columns) \ Remaining

\* C1: after multicol_data returns, no two distinct numeric columns that remain,
\* the target apart, have an absolute correlation (in the matrix computed at
\* the start) above 0.5: where the correlation is defined it is at most 0.5.
C1_NoCollinearPairRemains ==
    Filtered =>
      \A a, b \in Features \cap Remaining :
        a # b => \/ IsNaN(df_corr.at[a, b])
                 \/ ~FGt(FAbs(df_corr.at[a, b]), Frac(1, 2))

\* multicol_data returned a table from which a column was removed for a
\* correlation of -0.6 and in which two columns correlated at 0.5 remain
C1_Witness ==
    /\ Filtered
    /\ \E a, b \in Features : /\ a # b /\ df_corr.at[a, b] = Frac(-6, 10)
                              /\ a \in Removed
    /\ \E a, b \in Features \cap Remaining : a # b /\ df_corr.at[a, b] = Frac(1, 2)

\* the columns the visits of the pair a, b asked to drop
DroppedFor(a, b) ==
    {drop_log[k].dropped : k \in {k \in 1..Len(drop_log) :
                                    {drop_log[k].i, drop_log[k].col} = {a, b}}}

CollinearPairs ==
    {p \in SUBSET Features :
        Cardinality(p) = 2 /\ \A a, b \in p : a # b => Collinear(df_corr.at[a, b])}

\* C2, as stated: every pair of distinct non-target columns correlated above
\* 0.5 has exactly one of its columns dropped on its account, the one whose
\* signed correlation with salary is lower, also when the two are equal.
C2_ExactlyOneDropped ==
    Filtered =>
      \A p \in CollinearPairs : \A a, b \in p :
        a # b =>
          /\ Cardinality(DroppedFor(a, b)) = 1
          /\ FGt(df_corr.at[a, Target], df_corr.at[b, Target]) => DroppedFor(a, b) = {b}

\* C2, amended: a pair correlated above 0.5 has the column of the lower signed
\* correlation with salary dropped on its account, and only that one, when the
\* two correlations with salary differ; when neither is greater than the other
\* (they are equal, or undefined) both columns are dropped.  A pair that is not
\* correlated above 0.5 has nothing dropped on its account, and every column
\* dropped is absent from the returned table.
C2_LowerDroppedOrBoth ==
    Filtered =>
      /\ \A a, b \in Features :
           a # b =>
             DroppedFor(a, b) =
               IF ~Collinear(df_corr.at[a, b]) THEN {}
               ELSE IF FGt(df_corr.at[a, Target], df_corr.at[b, Target]) THEN {b}
               ELSE IF FGt(df_corr.at[b, Target], df_corr.at[a, Target]) THEN {a}
               ELSE {a, b}
      /\ \A k \in 1..Len(drop_log) : drop_log[k].dropped \in Removed
      /\ \A c \in Removed : \E k \in 1..Len(drop_log) : drop_log[k].dropped = c

\* multicol_data returned after a pair with a strongly negative and a weakly
\* positive correlation with salary lost the negative one only, and a pair with
\* equal correlations with salary lost both
C2_Witness ==
    /\ Filtered
    /\ \E a, b \in Features :
          /\ a # b /\ Collinear(df_corr.at[a, b])
          /\ df_corr.at[a, Target] = Frac(-6, 10) /\ df_corr.at[b, Target] = Frac(1, 2)
          /\ DroppedFor(a, b) = {a}
    /\ \E a, b \in Features :
          /\ a # b /\ Collinear(df_corr.at[a, b])
          /\ df_corr.at[a, Target] = df_corr.at[b, Target]
          /\ DroppedFor(a, b) = {a, b}

\* the orders in which the columns of df_corr may be visited
VisitOrders ==
    {o \in [1..Len(df_corr.names) -> Range(df_corr.names)] :
        \A a, b \in DOMAIN o : a # b => o[a] # o[b]}

\* C10: the columns multicol_data removes are those the loops remove in any
\* order of the numeric columns; salary and the categorical columns are never
\* removed, and dropping a column that is already gone raises nothing.
C10_OrderIndependent ==
    /\ pc # "error"
    /\ Filtered =>
         /\ \A o \in VisitOrders :
               Range(Scan(df_featured, df_corr, o, 1, 1).columns) = Remaining
         /\ Target \in Remaining
         /\ \A c \in Range(df_featured.columns) \ Features : c \in Remaining
         /\ Col(df, "country") = Col(df_featured, "country")
         /\ Col(df, Target) = Col(df_featured, Target)

\* multicol_data returned after asking twice to drop the same column, the
\* second time finding it gone, in a chain of collinear pairs
C10_Witness ==
    /\ Filtered
    /\ \E j, k \in 1..Len(drop_log) : j < k /\ drop_log[j].dropped = drop_log[k].dropped
    /\ Cardinality(Removed) = 2
    /\ Cardinality(CollinearPairs) = 2

-----------------------------------------------------------------------------
(* transform_data *)

RECURSIVE FSum(_)
FSum(col) == IF col = <<>> THEN FromInt(0) ELSE FAdd(Head(col), FSum(Tail(col)))

\* a cell of a numeric column as a float
AsFloat(v, dtype) == IF dtype \in {"int32", "int64"} THEN FromInt(v) ELSE v

Mean(col) == FDiv(FSum(col), FromInt(Len(col)))

\* the population variance, as StandardScaler computes it
Variance(col) ==
    LET m == Mean(col) IN
    FDiv(FSum([k \in 1..Len(col) |-> FMul(FSub(col[k], m), FSub(col[k], m))]),
         FromInt(Len(col)))

\* a scaler that divides by the deviation whatever it is
ScaleSquared_Unguarded(var) == var

\* the square of the scaler's scale_: the variance, and 1.0 where it is zero
ScaleSquared(var) == IF var = FromInt(0) THEN FromInt(1) ELSE var

\* StandardScaler().fit_transform(col): each value less the mean, over the
\* scale; the quotient (x - mean) / sqrt(scale2) is kept as the pair of its
\* numerator and of the square of its denominator
StandardScale(col) ==
    LET m  == Mean(col)
        s2 == ScaleSquared(Variance(col))
    IN  [k \in 1..Len(col) |-> [dev |-> FSub(col[k], m), scale2 |-> s2]]

\* the labels of the categorical cells, in the order sorted() puts them
LabelOrder == <<"0", "1", "2", "Dallas Mavericks", "No Team", "Not-USA", "USA",
                "Utah Jazz">>

\* sorted(set(col)): the encoder's categories_ of one column
Categories(col) ==
    SelectPos(LabelOrder, {k \in 1..Len(LabelOrder) : LabelOrder[k] \in Range(col)}, 1)

\* one indicator column of the encoder
Indicator(col, label) == [k \in 1..Len(col) |-> IF col[k] = label THEN FromInt(1) ELSE FromInt(0)]

RangeIndex(n) == [k \in 1..n |-> k - 1]

\* where label stands in an index, 0 when it does not
Locate(index, label) ==
    IF label \in Range(index) THEN CHOOSE k \in 1..Len(index) : index[k] = label ELSE 0

\* column col, held under the index from, laid out under the index to
Reindex(col, from, to) ==
    [k \in 1..Len(to) |-> IF Locate(from, to[k]) = 0 THEN NaNf ELSE col[Locate(from, to[k])]]

\* a concatenation that stacks the second frame under the first
Concat_Stacked(a, b) ==
    LET index == a.index \o b.index
        none  == [k \in 1..Len(index) |-> NaNf]
    IN  [columns |-> a.columns \o b.columns,
         dtypes  |-> a.dtypes \o b.dtypes,
         data    |-> [c \in 1..Len(a.columns) |-> a.data[c] \o SubSeq(none, 1, NRows(b))]
                     \o [c \in 1..Len(b.columns) |-> SubSeq(none, 1, NRows(a)) \o b.data[c]],
         index   |-> index]

\* pd.concat([a, b], axis=1): the columns of a, then those of b, the rows
\* matched on the index labels
Concat(a, b) ==
    LET extra == SelectPos(b.index, {k \in 1..Len(b.index) : b.index[k] \notin Range(a.index)}, 1)
        index == a.index \o extra
    IN  [columns |-> a.columns \o b.columns,
         dtypes  |-> a.dtypes \o b.dtypes,
         data    |-> [c \in 1..Len(a.columns) |-> Reindex(a.data[c], a.index, index)]
                     \o [c \in 1..Len(b.columns) |-> Reindex(b.data[c], b.index, index)],
         index   |-> index]

\* transform_data(df): X and y, or the ValueError the scaler and the encoder
\* raise for a frame with no row or no column, or the KeyError of df['salary']
transform_data(t) ==
    LET y0 == [data |-> Col(t, Target), index |-> t.index]
        d  == DropCols(t, {Target})
        numeric_df == SelectDtypes(d, NumberKinds)
        categorical_df == SelectDtypes(d, CategoryKinds)
        df_standard ==
            [columns |-> numeric_df.columns,
             dtypes  |-> [c \in 1..Len(numeric_df.columns) |-> "float64"],
             data    |-> [c \in 1..Len(numeric_df.columns) |->
                            StandardScale([k \in 1..NRows(t) |->
                                AsFloat(numeric_df.data[c][k], numeric_df.dtypes[c])])],
             index   |-> RangeIndex(NRows(t))]
        onehot_categories ==
            Flatten([c \in 1..Len(categorical_df.columns) |-> Categories(categorical_df.data[c])])
        onehot_data ==
            Flatten([c \in 1..Len(categorical_df.columns) |->
                LET cats == Categories(categorical_df.data[c]) IN
                [j \in 1..Len(cats) |-> Indicator(categorical_df.data[c], cats[j])]])
        df_onehot ==
            [columns |-> onehot_categories,
             dtypes  |-> [c \in 1..Len(onehot_categories) |-> "float64"],
             data    |-> onehot_data,
             index   |-> RangeIndex(NRows(t))]
    IN  IF ~HasCol(t, Target)
        THEN [ok |-> FALSE, err |-> "KeyError", X |-> NoFrame, y |-> <<>>]
        ELSE IF NRows(t) = 0 \/ numeric_df.columns = <<>> \/ categorical_df.columns = <<>>
        THEN [ok |-> FALSE, err |-> "ValueError", X |-> NoFrame, y |-> <<>>]
        ELSE [ok |-> TRUE, err |-> "", X |-> Concat(df_standard, df_onehot), y |-> y0]

\* main, line 117: X, y = transform_data(df)
TransformData ==
    /\ pc = "filtered"
    /\ LET r == transform_data(df) IN
         /\ pc' = IF r.ok THEN "done" ELSE "error"
         /\ err' = r.err
         /\ X' = r.X
         /\ y' = r.y
    /\ UNCHANGED <<csv, df_cleaned, df_featured, mdf, df_corr, mi, mj, drop_log, df>>

-----------------------------------------------------------------------------
(* The pipeline, as main runs it *)

\* the rows a table may have at most, in the runs of the whole pipeline
MaxPipeRows == 2

PipeRows ==
    {[b_day |-> BDay_6_15_90, draft_year |-> 2011, team |-> "Dallas Mavericks",
      height |-> Height_2_0, weight |-> Weight_100, salary |-> Salary_Plain, country |-> "Slovenia",
      draft_round |-> "Undrafted", version |-> Version20],
     [b_day |-> BDay_2_29_00, draft_year |-> 2019, team |-> NaN,
      height |-> Height_2_5, weight |-> Weight_128, salary |-> Salary_9M, country |-> "USA",
      draft_round |-> "1", version |-> Version20],
     [b_day |-> BDay_6_15_90, draft_year |-> 2011, team |-> "Dallas Mavericks",
      height |-> Height_2_0, weight |-> Weight_100, salary |-> Salary_Commas,
      country |-> "Slovenia",
      draft_round |-> "Undrafted", version |-> Version20],
     [b_day |-> BDay_6_15_85, draft_year |-> 2011, team |-> "Utah Jazz",
      height |-> Height_2_0, weight |-> Weight_128, salary |-> Salary_8M, country |-> "USA",
      draft_round |-> "2", version |-> Version20]}

Init ==
    /\ pc = "start"
    /\ \E rows \in SeqsUpTo(PipeRows, MaxPipeRows) \ {<<>>} : csv = read_csv(rows)
    /\ Unset

Next ==
    \/ CleanData
    \/ FeatureData
    \/ MulticolBegin
    \/ MulticolVisit
    \/ MulticolReturn
    \/ TransformData

Spec == Init /\ [][Next]_vars

-----------------------------------------------------------------------------
(* Claims about the whole pipeline, under Spec *)

Done == pc = "done"

\* the numeric columns of the feature table that hold a single value
FlatColumns ==
    LET numeric_df == SelectDtypes(df_featured, NumberKinds) IN
    {n \in Range(numeric_df.columns) : ZeroVariance(Col(numeric_df, n))}

\* C5, as stated: when a numeric column has zero variance the pipeline aborts,
\* and transform_data returns no feature matrix.
C5_ZeroVarianceAborts == Done => FlatColumns = {}

\* C5, amended: a numeric feature column (not salary) of zero variance has
\* undefined correlations and raises nothing: multicol_data drops nothing on
\* its account and keeps it, and transform_data returns a feature matrix in
\* which it is all zeros, scaled by 1.
C5_ZeroVarianceKept ==
    \A c \in FlatColumns \ {Target} :
      /\ pc # "error"
      /\ pc \in {"multicol", "filtered", "done"} =>
           /\ \A b \in Range(df_corr.names) : IsNaN(df_corr.at[c, b])
           /\ \A k \in 1..Len(drop_log) : c \notin {drop_log[k].i, drop_log[k].col}
           /\ HasCol(mdf, c)
      /\ pc \in {"filtered", "done"} => HasCol(df, c)
      /\ Done =>
           /\ HasCol(X, c)
           /\ \A k \in 1..NRows(X) : Col(X, c)[k] = [dev |-> FromInt(0), scale2 |-> FromInt(1)]

\* transform_data returned a feature matrix for a table of several rows whose
\* experience column holds one value, while salary and age vary
C5_Witness ==
    /\ Done
    /\ NRows(csv) >= 2
    /\ "experience" \in FlatColumns
    /\ Target \notin FlatColumns /\ "age" \notin FlatColumns
    /\ HasCol(X, "experience")

\* C8: when the pipeline completes, X and y have as many rows as the input
\* table, under the same index and in the same order (row k of y is the salary
\* of row k of the input, and row k of X marks the country of row k of the
\* input), X has no salary column, and every table between has that many rows.
C8_RowsPreserved ==
    /\ pc \in {"cleaned", "featured", "multicol", "filtered", "done"} =>
         NRows(df_cleaned) = NRows(csv)
    /\ pc \in {"featured", "multicol", "filtered", "done"} => NRows(df_featured) = NRows(csv)
    /\ pc \in {"multicol", "filtered", "done"} => NRows(mdf) = NRows(csv)
    /\ pc \in {"filtered", "done"} => NRows(df) = NRows(csv)
    /\ Done =>
         /\ NRows(X) = NRows(csv) /\ Len(y.data) = NRows(csv)
         /\ X.index = csv.index /\ y.index = csv.index
         /\ \A c \in 1..Len(X.columns) : Len(X.data[c]) = NRows(csv)
         /\ Target \notin Range(X.columns)
         /\ \A k \in Rows :
              /\ y.data[k] = ParseFloat(Remove(Raw("salary", k), "$")).val
              /\ Col(X, IF Raw("country", k) = "USA" THEN "USA" ELSE "Not-USA")[k] = FromInt(1)
              /\ Raw("team", k) # NaN => Col(X, Raw("team", k))[k] = FromInt(1)

\* the pipeline completed for a table of two rows of different salaries and
\* countries, after the filter removed a column
C8_Witness ==
    /\ Done
    /\ NRows(csv) = 2 /\ NRows(X) = 2
    /\ y.data[1] # y.data[2]
    /\ Raw("country", 1) # Raw("country", 2)
    /\ Len(df.columns) < Len(df_featured.columns)

=============================================================================
